---- MODULE Spec2Model ----
(***************************************************************************)
(* The stack VM of src/vm/vm.rs: one chunk, one stack, one instruction     *)
(* pointer; run(chunk) swaps the chunk in, loops step() while              *)
(* ip < code.len(), and swaps the old chunk back.                          *)
(*                                                                         *)
(* Indexing: Rust indexes from 0, TLA+ sequences from 1.  ip keeps the     *)
(* Rust value (a byte offset, 0-based); code[ip] is written code[ip + 1].  *)
(* Stack indices are the TLA+ ones (Rust index + 1), so Option<usize> is   *)
(* modelled as 0 for None and i + 1 for Some(i).                           *)
(*                                                                         *)
(* A panic unwinds out of run: the model records it in pc = "panicked"     *)
(* with the fields as the panicking handler left them.  A caller that      *)
(* catches the unwind still holds the VM and may call run again.           *)
(***************************************************************************)
EXTENDS Integers, Sequences, FiniteSets, TLC

VARIABLES
    chunk,      \* VM.chunk: [code, constants, locals]
    stack,      \* VM.stack: sequence of items, bottom first
    ip,         \* VM.ip: 0-based byte offset into chunk.code
    old_chunk,  \* run's local old_chunk, live while run is on the call stack
    pc,         \* "idle" (no run active), "running" (inside run's loop), "panicked"
    ret,        \* what the last finished run returned: "Some", or "none" if none returned
    fault,      \* the panic that ended the last run, "none" if it did not panic
    fails,      \* handlers that returned None in the current run (saturates at MaxFails)
    faulted,    \* history: some handler has returned None or panicked on this VM
    hist,       \* history: the last HistLen handlers completed in the current run
    saved,      \* history: per descriptor, the value of the last completed Save ("none" if none)
    calls       \* history: run has been called "none", "one" or "more" times on this VM

vars == <<chunk, stack, ip, old_chunk, pc, ret, fault, fails, faulted, hist, saved,
          calls>>

----------------------------------------------------------------------------
\* Bounds of the model.

\* chunks of up to this many pieces are enumerated exhaustively
MaxInstrs == 1
\* the failure counter stops counting here
MaxFails == 2
\* how many completed handlers the history remembers
HistLen == 4

----------------------------------------------------------------------------
\* Opcode bytes (pipeline::bytecode::Opcode, to_byte / from_byte).

Con == 0
Save == 1
Load == 2
Clear == 3

\* Opcode::from_byte: the opcode a byte stands for, "Bad" if none.
from_byte(b) ==
    CASE b = Con   -> "Con"
      [] b = Save  -> "Save"
      [] b = Load  -> "Load"
      [] b = Clear -> "Clear"
      [] OTHER     -> "Bad"

\* The operand encoding is a continuation scheme of 7-bit groups, most
\* significant first; the byte with the high bit set is the last one.
Radix == 128

\* the one-byte encoding of operand n (n < Radix)
Enc(n) == Radix + n

\* utils::number::build_number: (index, eaten) of the first number encoded in
\* bytes; ok is FALSE when the bytes end before the encoding does.
RECURSIVE build_from(_, _, _)
build_from(bytes, i, e) ==
    IF bytes = <<>>
    THEN [ok |-> FALSE, index |-> i, eaten |-> e]
    ELSE LET b == Head(bytes)
             n == i * Radix + (b % Radix)
         IN  IF b >= Radix
             THEN [ok |-> TRUE, index |-> n, eaten |-> e + 1]
             ELSE build_from(Tail(bytes), n, e + 1)

build_number(bytes) == build_from(bytes, 0, 0)

----------------------------------------------------------------------------
\* Values, tagged values and stack items.

\* Tagged::from(data): wrap a value
Tagged_from(d) == [tagged |-> d]

\* Tagged::deref: an owned copy of the wrapped value
deref(t) == t.tagged

Frame == [kind |-> "Frame"]
Data(t) == [kind |-> "Data", tagged |-> t]
Local(l, d) == [kind |-> "Local", local |-> l, data |-> d]

\* Vec::pop leaves the front; Front of the stack
Front(s) == SubSeq(s, 1, Len(s) - 1)
Top(s) == s[Len(s)]

\* Chunk::empty()
Chunk_empty == [code |-> <<>>, constants |-> <<>>, locals |-> <<>>]

----------------------------------------------------------------------------
\* Helpers of the first impl block.

\* peek_byte: chunk.code[ip]
peek_byte(c, i) == c.code[i + 1]

\* next_number that takes whatever the decoder got from a code that ended
next_number_lenient(c, i) ==
    LET p == i + 1
        r == build_number(SubSeq(c.code, p + 1, Len(c.code)))
    IN  [ok |-> TRUE, index |-> r.index, ip |-> p + r.eaten - 1]

\* next_number that leaves ip on the byte after the operand
next_number_far(c, i) ==
    LET p == i + 1
        r == build_number(SubSeq(c.code, p + 1, Len(c.code)))
    IN  IF r.ok
        THEN [ok |-> TRUE, index |-> r.index, ip |-> p + r.eaten]
        ELSE [ok |-> FALSE, index |-> 0, ip |-> p]

\* next_number, entered with ip on the opcode: ip moves to the first operand
\* byte, the rest of the code is decoded, and ip is left on the last operand
\* byte.  ok is FALSE when build_number could not decode (ip then stays on
\* the first operand byte).
next_number(c, i) ==
    LET p == i + 1
        r == build_number(SubSeq(c.code, p + 1, Len(c.code)))
    IN  IF r.ok
        THEN [ok |-> TRUE, index |-> r.index, ip |-> p + r.eaten - 1]
        ELSE [ok |-> FALSE, index |-> 0, ip |-> p]

\* find_from that scans on through a Frame
RECURSIVE find_from_through(_, _, _)
find_from_through(s, i, local) ==
    IF i = 0 THEN 0
    ELSE IF s[i].kind = "Local" /\ s[i].local = local THEN i
    ELSE find_from_through(s, i - 1, local)

\* find_local: scan from the top; the index of the first Local of this
\* descriptor, 0 (None) at the first Frame or at the bottom.
RECURSIVE find_from(_, _, _)
find_from(s, i, local) ==
    IF i = 0 THEN 0
    ELSE CASE s[i].kind = "Local" ->
                IF s[i].local = local THEN i ELSE find_from(s, i - 1, local)
           [] s[i].kind = "Frame" -> 0
           [] OTHER -> find_from(s, i - 1, local)

\* find_local with the scan started one item too low
find_local_below(s, local) ==
    IF s = <<>> THEN 0 ELSE find_from(s, Len(s) - 1, local)

find_local(s, local) == find_from(s, Len(s), local)

\* done: ip += 1 and Some(())
done(i) == i + 1

----------------------------------------------------------------------------
\* Opcode handlers.  Each maps (chunk, stack, ip) to the stack and ip it
\* leaves and its outcome res: "Some", "None", or the panic it raised.
\* op, arg and found describe the handler for the history.

Out(s, i, res, op, arg, found) ==
    [stack |-> s, ip |-> i, res |-> res, op |-> op, arg |-> arg, found |-> found]

\* con that pushes the first constant whatever its operand
con_first(c, s, i) ==
    LET n == next_number(c, i)
    IN  IF ~n.ok THEN Out(s, n.ip, "Decode", "Con", 0, 0)
        ELSE IF n.index >= Len(c.constants)
        THEN Out(s, n.ip, "Bounds", "Con", n.index, 0)
        ELSE Out(Append(s, Data(Tagged_from(c.constants[1]))),
                 done(n.ip), "Some", "Con", n.index, 0)

con(c, s, i) ==
    LET n == next_number(c, i)
    IN  IF ~n.ok THEN Out(s, n.ip, "Decode", "Con", 0, 0)
        ELSE IF n.index >= Len(c.constants)
        THEN Out(s, n.ip, "Bounds", "Con", n.index, 0)
        ELSE Out(Append(s, Data(Tagged_from(c.constants[n.index + 1]))),
                 done(n.ip), "Some", "Con", n.index, 0)

\* save_bind that ignores the resolver's answer and always pushes
save_bind_push(s1, index, local, data) == Append(s1, Local(local, data))

\* save_bind that moves a re-saved binding to the top of the stack
save_bind_move(s1, index, local, data) ==
    IF index # 0
    THEN Append(SubSeq(s1, 1, index - 1) \o SubSeq(s1, index + 1, Len(s1)),
                Local(local, data))
    ELSE Append(s1, Local(local, data))

\* save's match on the resolver's answer: replace the binding in place, or
\* push a new one
save_bind(s1, index, local, data) ==
    IF index # 0
    THEN [s1 EXCEPT ![index] = Local(local, data)]
    ELSE Append(s1, Local(local, data))

\* save that reports a top item of the wrong shape as None
save_quiet(c, s, i) ==
    IF s = <<>> THEN Out(s, i, "None", "Save", 0, 0)
    ELSE IF Top(s).kind # "Data"
    THEN Out(Front(s), i, "None", "Save", 0, 0)
    ELSE
    LET data == deref(Top(s).tagged)
        s1 == Front(s)
        n == next_number(c, i)
    IN  IF ~n.ok THEN Out(s1, n.ip, "Decode", "Save", 0, 0)
        ELSE IF n.index >= Len(c.locals)
        THEN Out(s1, n.ip, "Bounds", "Save", n.index, 0)
        ELSE
        LET local == c.locals[n.index + 1]
            index == find_local(s1, local)
        IN  Out(save_bind(s1, index, local, data),
                done(n.ip), "Some", "Save", n.index, index)

save(c, s, i) ==
    IF s = <<>> THEN Out(s, i, "None", "Save", 0, 0)
    ELSE IF Top(s).kind # "Data"
    THEN Out(Front(s), i, "ExpectedData", "Save", 0, 0)
    ELSE
    LET data == deref(Top(s).tagged)
        s1 == Front(s)
        n == next_number(c, i)
    IN  IF ~n.ok THEN Out(s1, n.ip, "Decode", "Save", 0, 0)
        ELSE IF n.index >= Len(c.locals)
        THEN Out(s1, n.ip, "Bounds", "Save", n.index, 0)
        ELSE
        LET local == c.locals[n.index + 1]
            index == find_local(s1, local)
        IN  Out(save_bind(s1, index, local, data),
                done(n.ip), "Some", "Save", n.index, index)

\* load_push that pushes a clone of the binding itself
load_push_item(s, index) == Append(s, s[index])

\* load's push of a Data item built from a clone of the binding's value
load_push(s, index) ==
    IF s[index].kind = "Local"
    THEN Append(s, Data(Tagged_from(s[index].data)))
    ELSE s

load(c, s, i) ==
    LET n == next_number(c, i)
    IN  IF ~n.ok THEN Out(s, n.ip, "Decode", "Load", 0, 0)
        ELSE IF n.index >= Len(c.locals)
        THEN Out(s, n.ip, "Bounds", "Load", n.index, 0)
        ELSE
        LET local == c.locals[n.index + 1]
            index == find_local(s, local)
        IN  IF index # 0
            THEN Out(load_push(s, index),
                     done(n.ip), "Some", "Load", n.index, index)
            ELSE Out(s, n.ip, "LocalNotFound", "Load", n.index, 0)

\* clear_loop that does not push the first non-Data item back
RECURSIVE clear_loop_drop(_)
clear_loop_drop(s) ==
    IF s = <<>> THEN [stack |-> <<>>, found |-> FALSE]
    ELSE IF Top(s).kind = "Data" THEN clear_loop_drop(Front(s))
    ELSE [stack |-> Front(s), found |-> TRUE]

\* clear_loop without the loop: at most one Data item is popped
clear_loop_once(s) ==
    IF s = <<>> THEN [stack |-> <<>>, found |-> FALSE]
    ELSE IF Top(s).kind = "Data" THEN [stack |-> Front(s), found |-> TRUE]
    ELSE [stack |-> s, found |-> TRUE]

\* clear_loop that takes the boundary for granted when the stack runs out
RECURSIVE clear_loop_assume(_)
clear_loop_assume(s) ==
    IF s = <<>> THEN [stack |-> <<>>, found |-> TRUE]
    ELSE IF Top(s).kind = "Data" THEN clear_loop_assume(Front(s))
    ELSE [stack |-> Append(Front(s), Top(s)), found |-> TRUE]

\* clear's loop on the stack: pop while the popped item is Data, push the
\* first other item back; None when the stack runs out.
RECURSIVE clear_loop(_)
clear_loop(s) ==
    IF s = <<>> THEN [stack |-> <<>>, found |-> FALSE]
    ELSE IF Top(s).kind = "Data" THEN clear_loop(Front(s))
    ELSE [stack |-> Append(Front(s), Top(s)), found |-> TRUE]

\* clear that pops nothing
clear_skip(c, s, i) == Out(s, done(i), "Some", "Clear", 0, 0)

clear(c, s, i) ==
    LET r == clear_loop(s)
    IN  IF r.found
        THEN Out(r.stack, done(i), "Some", "Clear", 0, 0)
        ELSE Out(r.stack, i, "None", "Clear", 0, 0)

----------------------------------------------------------------------------
\* The chunks run is called with.

Constants == <<"a", "b">>
Locals == <<"x", "y">>

Chunk(code) == [code |-> code, constants |-> Constants, locals |-> Locals]

\* One encoded instruction, or a piece of one: the well-formed instructions
\* with a one-byte operand, a lone opcode that takes an operand (what follows
\* it becomes its operand, or nothing does), and a lone operand byte.
Pieces ==
    {<<op, Enc(n)>> : op \in {Con, Save, Load}, n \in {0, 1}}
    \cup {<<Clear>>, <<Con>>, <<Save>>, <<Load>>, <<Enc(0)>>}

RECURSIVE CodesOf(_)
CodesOf(n) ==
    IF n = 0 THEN {<<>>}
    ELSE LET shorter == CodesOf(n - 1)
         IN  shorter \cup {c \o p : c \in shorter, p \in Pieces}

\* x = a; b; y = b; x   (the program of test init_run)
InitRunCode ==
    <<Con, Enc(0), Save, Enc(0), Clear, Con, Enc(1), Clear,
      Con, Enc(1), Save, Enc(1), Clear, Load, Enc(0)>>

\* x = a; y = b; x = b; x; y
ReSaveCode ==
    <<Con, Enc(0), Save, Enc(0), Con, Enc(1), Save, Enc(1),
      Con, Enc(1), Save, Enc(0), Load, Enc(0), Load, Enc(1)>>

\* d = c; d   for constant index k and local index j
RoundTripCode(k, j) == <<Con, Enc(k), Save, Enc(j), Load, Enc(j)>>

\* x = a; x; b with operands encoded over two and three bytes, then a
\* constant index beyond the pool
WideCode ==
    <<Con, 0, Enc(0), Save, 0, 0, Enc(0), Load, 0, Enc(0), Con, 0, Enc(1),
      Con, 1, Enc(0)>>

\* a; b; then two statement boundaries
ClearCode == <<Con, Enc(0), Con, Enc(1), Clear, Clear>>

\* x = a, cut off inside the operand of the Save
TruncCode == <<Con, Enc(0), Save, 0>>

\* x = a, then a Save with the binding on top of the stack
SaveTwiceCode == <<Con, Enc(0), Save, Enc(0), Save, Enc(1)>>

Programs ==
    {InitRunCode, ReSaveCode, WideCode, ClearCode, TruncCode, SaveTwiceCode}
    \cup {RoundTripCode(k, j) : k \in {0, 1}, j \in {0, 1}}

Codes == CodesOf(MaxInstrs) \cup Programs

Chunks == {Chunk(code) : code \in Codes}

----------------------------------------------------------------------------
\* The state machine.

\* VM::init
Init ==
    /\ chunk = Chunk_empty
    /\ stack = <<Frame>>
    /\ ip = 0
    /\ old_chunk = Chunk_empty
    /\ pc = "idle"
    /\ ret = "none"
    /\ fault = "none"
    /\ fails = 0
    /\ faulted = FALSE
    /\ hist = <<>>
    /\ saved = [l \in {Locals[n] : n \in 1..Len(Locals)} |-> "none"]
    /\ calls = "none"

Remember(h, e) ==
    IF Len(h) < HistLen THEN Append(h, e) ELSE Append(Tail(h), e)

\* What the loop of run does with a handler's outcome: the value step
\* returns is dropped, so Some and None both go round the loop again; a panic
\* leaves run with the swapped-in chunk in place.
Apply(o) ==
    /\ stack' = o.stack
    /\ ip' = o.ip
    /\ IF o.res = "Some"
       THEN /\ pc' = "running"
            /\ hist' = Remember(hist, [op |-> o.op, arg |-> o.arg, found |-> o.found])
            /\ saved' = IF o.op = "Save"
                         THEN [saved EXCEPT ![chunk.locals[o.arg + 1]] =
                                                deref(Top(stack).tagged)]
                         ELSE saved
            /\ UNCHANGED <<fault, fails, faulted, old_chunk>>
       ELSE IF o.res = "None"
       THEN /\ pc' = "running"
            /\ fails' = IF fails < MaxFails THEN fails + 1 ELSE fails
            /\ faulted' = TRUE
            /\ UNCHANGED <<fault, hist, saved, old_chunk>>
       ELSE /\ pc' = "panicked"
            /\ fault' = o.res
            /\ faulted' = TRUE
            /\ old_chunk' = Chunk_empty
            /\ UNCHANGED <<fails, hist, saved>>
    /\ UNCHANGED <<chunk, ret, calls>>

\* the loop condition of run and step's decode of the opcode at ip
AtOp(op) ==
    /\ pc = "running"
    /\ ip < Len(chunk.code)
    /\ from_byte(peek_byte(chunk, ip)) = op

\* run entered: the chunk is swapped in
Run(c) ==
    /\ pc \in {"idle", "panicked"}
    /\ old_chunk' = chunk
    /\ chunk' = c
    /\ pc' = "running"
    /\ ret' = "none"
    /\ fault' = "none"
    /\ fails' = 0
    /\ hist' = <<>>
    /\ calls' = IF calls = "none" THEN "one" ELSE "more"
    /\ UNCHANGED <<stack, ip, faulted, saved>>

StepCon == AtOp("Con") /\ Apply(con(chunk, stack, ip))

StepSave == AtOp("Save") /\ Apply(save(chunk, stack, ip))

StepLoad == AtOp("Load") /\ Apply(load(chunk, stack, ip))

StepClear == AtOp("Clear") /\ Apply(clear(chunk, stack, ip))

\* a byte that is no opcode
StepBad == AtOp("Bad") /\ Apply(Out(stack, ip, "BadOpcode", "Bad", 0, 0))

\* Return without the swap back
Return_keep ==
    /\ pc = "running"
    /\ ~(ip < Len(chunk.code))
    /\ pc' = "idle"
    /\ ret' = "Some"
    /\ hist' = <<>>
    /\ old_chunk' = Chunk_empty
    /\ UNCHANGED <<chunk, stack, ip, fault, fails, faulted, saved, calls>>

\* the loop ended: the old chunk is swapped back and run returns Some(())
Return ==
    /\ pc = "running"
    /\ ~(ip < Len(chunk.code))
    /\ chunk' = old_chunk
    /\ old_chunk' = Chunk_empty
    /\ pc' = "idle"
    /\ ret' = "Some"
    /\ hist' = <<>>
    /\ UNCHANGED <<stack, ip, fault, fails, faulted, saved, calls>>

Next ==
    \/ \E c \in Chunks : Run(c)
    \/ StepCon
    \/ StepSave
    \/ StepLoad
    \/ StepClear
    \/ StepBad
    \/ Return

Spec == Init /\ [][Next]_vars

----------------------------------------------------------------------------
\* Vocabulary of the properties, stated on the stack alone.

Max(S) == CHOOSE x \in S : \A y \in S : y <= x

\* index of the topmost Frame, 0 if the stack holds none
TopFrame(s) ==
    LET fs == {i \in 1..Len(s) : s[i].kind = "Frame"}
    IN  IF fs = {} THEN 0 ELSE Max(fs)

\* the highest index above the topmost Frame that binds descriptor d, 0 if none
Resolve(s, d) ==
    LET bs == {i \in 1..Len(s) :
                 /\ i > TopFrame(s)
                 /\ s[i].kind = "Local"
                 /\ s[i].local = d}
    IN  IF bs = {} THEN 0 ELSE Max(bs)

\* the stack without the Data items above its topmost non-Data item
StripData(s) ==
    LET keep == {i \in 1..Len(s) : s[i].kind # "Data"}
    IN  IF keep = {} THEN <<>> ELSE SubSeq(s, 1, Max(keep))

NumData(s) == Cardinality({i \in 1..Len(s) : s[i].kind = "Data"})

\* this step is the handler of op, and it completed with Some(())
Completes(op) == AtOp(op) /\ pc' = "running" /\ ip' > ip

\* the operand of the instruction at ip, and the descriptor it names
Operand == next_number(chunk, ip).index
OperandLocal == chunk.locals[Operand + 1]

\* the n-th last entry of the history
Ago(n) == hist[Len(hist) - n]

----------------------------------------------------------------------------
\* C1: once a handler has reported failure (returned None) during run, the
\* loop executes nothing further and run has returned a failure: no state
\* has a failed handler behind it and the loop still going.
C1_FailureEndsRun ==
    fails > 0 => (pc = "idle" /\ ret = "None")

\* C2: every run starts the given chunk at instruction pointer 0: in the
\* loop, before any handler of this run has been executed, ip is 0 (stated
\* for the VMs whose earlier runs all completed).
C2_RunStartsAtZero ==
    (pc = "running" /\ hist = <<>> /\ fails = 0 /\ ~faulted) => ip = 0

\* C3: run terminates because no pass round the loop leaves ip where it was:
\* a pass after which the loop is still going has advanced ip.
C3_EveryPassAdvances ==
    [][(pc = "running" /\ pc' = "running") => ip' > ip]_vars

\* C4: as long as every handler so far completed successfully, the bottom
\* Frame is still at the bottom of the stack; in particular after run
\* returned.
C4_BottomFrameKept ==
    ~faulted => (Len(stack) >= 1 /\ stack[1] = Frame)

\* a run has returned, with every handler so far completed, leaving a binding
\* and a Data item above the Frame
C4_Witness ==
    /\ pc = "idle" /\ ret = "Some" /\ ~faulted
    /\ Len(stack) >= 3
    /\ \E i \in 2..Len(stack) : stack[i].kind = "Local"
    /\ Top(stack).kind = "Data"

\* C5 as claimed: a completed Save leaves the depth unchanged when the
\* descriptor was bound in the current frame and one deeper when it was not.
C5_DepthAsClaimed ==
    [][Completes("Save") =>
          Len(stack') = IF Resolve(stack, OperandLocal) # 0
                        THEN Len(stack) ELSE Len(stack) + 1]_vars

\* C5 amended: a completed Save consumes exactly one value, the Data item on
\* top, and leaves the stack one shorter when the descriptor was bound in the
\* current frame (replace) and as deep as before when it was not (first
\* declaration).
C5_SaveDepth ==
    [][Completes("Save") =>
          /\ Top(stack).kind = "Data"
          /\ NumData(stack') = NumData(stack) - 1
          /\ Len(stack') = IF Resolve(stack, OperandLocal) # 0
                           THEN Len(stack) - 1 ELSE Len(stack)]_vars

\* a first declaration and a replace have both completed in this run
C5_Witness ==
    /\ pc = "running"
    /\ \E m, n \in 1..Len(hist) :
          /\ hist[m].op = "Save" /\ hist[m].found = 0
          /\ hist[n].op = "Save" /\ hist[n].found # 0

\* C6: after Con k; Save j; Load j, where j was not bound in the frame before
\* the Save, the top of the stack is a Data item of value constants[k] and
\* the Local of locals[j] holding constants[k] lies right beneath it.
C6_RoundTrip ==
    (/\ pc = "running" /\ Len(hist) >= 3
     /\ Ago(2).op = "Con"
     /\ Ago(1).op = "Save" /\ Ago(1).found = 0
     /\ Ago(0).op = "Load" /\ Ago(0).arg = Ago(1).arg)
    => LET c == chunk.constants[Ago(2).arg + 1]
           d == chunk.locals[Ago(1).arg + 1]
       IN  /\ Len(stack) >= 2
           /\ Top(stack).kind = "Data"
           /\ deref(Top(stack).tagged) = c
           /\ stack[Len(stack) - 1] = Local(d, c)

\* the round trip has run with the second constant and the second descriptor
C6_Witness ==
    /\ pc = "running" /\ Len(hist) >= 3
    /\ Ago(2).op = "Con" /\ Ago(2).arg = 1
    /\ Ago(1).op = "Save" /\ Ago(1).found = 0 /\ Ago(1).arg = 1
    /\ Ago(0).op = "Load" /\ Ago(0).arg = 1

\* C7: a completed Save of a descriptor bound at index i of the frame puts a
\* Local of that descriptor holding the saved value at i and leaves every
\* other item below the consumed top as it was; of an unbound descriptor it
\* pushes that Local on top instead.  A completed Load pushes the value of the
\* latest completed Save of its descriptor.
C7_ReSaveInPlace ==
    [][/\ Completes("Save") =>
            LET d == OperandLocal
                v == deref(Top(stack).tagged)
                below == Front(stack)
                i == Resolve(below, d)
            IN  IF i # 0
                THEN stack' = [below EXCEPT ![i] = Local(d, v)]
                ELSE stack' = Append(below, Local(d, v))
       /\ Completes("Load") =>
            /\ Top(stack').kind = "Data"
            /\ deref(Top(stack').tagged) = saved[OperandLocal]]_vars

\* a Load has completed after a re-save that changed the value of a binding
\* lying beneath another binding
C7_Witness ==
    /\ pc = "running" /\ Len(hist) >= 2
    /\ Ago(1).op = "Save" /\ Ago(1).found # 0 /\ Ago(1).found < Len(stack) - 1
    /\ Ago(0).op = "Load" /\ Ago(0).arg = Ago(1).arg
    /\ stack[Ago(1).found].data = "b"

\* C8: a Load whose descriptor resolves at index i completes, pushing one
\* Data item equal to the value bound at i on the otherwise unchanged stack;
\* a Load whose descriptor does not resolve panics with 'Local not found' and
\* leaves the stack as it was.
C8_LoadEffect ==
    [][(/\ AtOp("Load")
        /\ next_number(chunk, ip).ok
        /\ Operand < Len(chunk.locals))
       => LET i == Resolve(stack, OperandLocal)
          IN  IF i # 0
              THEN /\ pc' = "running"
                   /\ stack' = Append(stack, Data(Tagged_from(stack[i].data)))
                   /\ Len(stack') = Len(stack) + 1
              ELSE /\ pc' = "panicked"
                   /\ fault' = "LocalNotFound"
                   /\ stack' = stack]_vars

\* a Load has resolved a binding that is not the top of the stack
C8_Witness ==
    /\ pc = "running" /\ Len(hist) >= 1
    /\ Ago(0).op = "Load" /\ Ago(0).found # 0
    /\ Ago(0).found < Len(stack) - 1
    /\ Top(stack) = Data(Tagged_from(stack[Ago(0).found].data))

\* C9: Clear leaves the stack without the run of Data items at its top and
\* otherwise as it was, leaves a stack whose top is not Data unchanged, and
\* clearing the stack it left would leave that stack again.
C9_ClearEffect ==
    [][AtOp("Clear") =>
          /\ stack' = StripData(stack)
          /\ (stack # <<>> /\ Top(stack).kind # "Data") => stack' = stack
          /\ clear_loop(stack').stack = stack']_vars

\* two Data items were cleared, and Clear then ran again
C9_Witness ==
    /\ pc = "running" /\ Len(hist) >= 4
    /\ Ago(3).op = "Con" /\ Ago(2).op = "Con"
    /\ Ago(1).op = "Clear" /\ Ago(0).op = "Clear"
    /\ Top(stack).kind # "Data"

\* C10: entering run and returning from it leave the stack alone, the loop
\* leaves the two chunks alone, and returning puts back the chunk that was
\* active when run was entered; on a VM that never faulted that is the chunk
\* of VM::init.
C10_ChunkRestored ==
    /\ []((pc = "idle" /\ ~faulted) => chunk = Chunk_empty)
    /\ [][/\ (pc # "running" /\ pc' = "running") =>
                (stack' = stack /\ old_chunk' = chunk)
          /\ (pc = "running" /\ pc' = "running") =>
                (chunk' = chunk /\ old_chunk' = old_chunk)
          /\ (pc = "running" /\ pc' = "idle") =>
                (stack' = stack /\ chunk' = old_chunk)]_vars

\* run has returned on a VM that a panic had left holding another chunk, and
\* Data and Local items of earlier runs are on the stack
C10_Witness ==
    /\ pc = "idle" /\ ret = "Some"
    /\ chunk # Chunk_empty
    /\ \E i, j \in 1..Len(stack) :
          stack[i].kind = "Local" /\ stack[j].kind = "Data"

\* the first run on this VM is under way, and it is of the chunk of
\* "x = a; b; y = b; x"
InitRunFirst == pc = "running" /\ calls = "one" /\ chunk.code = InitRunCode

\* Frame, x bound to a, y bound to b, one Data item of value a
InitRunFinal ==
    <<Frame, Local("x", "a"), Local("y", "b"), Data(Tagged_from("a"))>>

\* C11: the first run on a VM, of the chunk of "x = a; b; y = b; x", goes
\* through without a fault and returns Some(()) with the stack Frame, Local x
\* holding a, Local y holding b and one Data item of value a on top.
C11_InitRunResult ==
    /\ [](InitRunFirst => (~faulted /\ fails = 0))
    /\ []((InitRunFirst /\ ip >= Len(InitRunCode)) => stack = InitRunFinal)
    /\ [][(InitRunFirst /\ pc' # "running") =>
             (pc' = "idle" /\ ret' = "Some" /\ stack' = InitRunFinal
              /\ NumData(stack') = 1)]_vars

\* that run is over
C11_Witness ==
    /\ pc = "idle" /\ calls = "one" /\ ret = "Some"
    /\ ip = Len(InitRunCode)
    /\ stack = InitRunFinal

\* the instruction at ip takes an operand
TakesOperand == AtOp("Con") \/ AtOp("Save") \/ AtOp("Load")

\* no byte after the opcode at ip ends an operand: the code stops first
Truncated ==
    \A k \in (ip + 2)..Len(chunk.code) : chunk.code[k] < Radix

OperandLen ==
    CHOOSE n \in 1..Len(chunk.code) :
        /\ ip + 1 + n <= Len(chunk.code)
        /\ chunk.code[ip + 1 + n] >= Radix
        /\ \A m \in 1..(n - 1) : chunk.code[ip + 1 + m] < Radix

RECURSIVE ValueOf(_)
ValueOf(bytes) ==
    IF bytes = <<>> THEN 0
    ELSE ValueOf(Front(bytes)) * Radix + (Top(bytes) % Radix)

OperandValue == ValueOf(SubSeq(chunk.code, ip + 2, ip + 1 + OperandLen))

\* C13: a Con whose operand k is an index of constants completes, pushing
\* one Data item of value constants[k] on the otherwise unchanged stack,
\* leaves the chunk (and so the constant pool) as it was, and leaves ip on
\* the byte after the opcode and its operand.
C13_ConEffect ==
    [][(AtOp("Con") /\ ~Truncated /\ OperandValue < Len(chunk.constants)) =>
          /\ pc' = "running"
          /\ stack' = Append(stack, Data(Tagged_from(chunk.constants[OperandValue + 1])))
          /\ Len(stack') = Len(stack) + 1
          /\ chunk' = chunk
          /\ ip' = ip + 1 + OperandLen]_vars

\* the second constant has been pushed by a Con with a two-byte operand onto
\* a stack that held a binding
C13_Witness ==
    /\ pc = "running" /\ Len(hist) >= 1
    /\ Ago(0).op = "Con" /\ Ago(0).arg = 1
    /\ ip >= 3
    /\ chunk.code[ip - 2] = Con /\ chunk.code[ip - 1] < Radix /\ chunk.code[ip] >= Radix
    /\ Top(stack) = Data(Tagged_from("b"))
    /\ \E i \in 1..Len(stack) : stack[i].kind = "Local"

\* C14: the stack holds at least one Frame in every state, the states a
\* faulting handler leaves behind included.
C14_AlwaysAFrame ==
    \E i \in 1..Len(stack) : stack[i] = Frame

\* C15: a Save executed with a Local or a Frame on top of the stack panics
\* with 'Expected data'; every item it leaves on the stack is an item that
\* was there, at its index, so no binding is created or replaced.
C15_SaveNeedsData ==
    [][(AtOp("Save") /\ stack # <<>> /\ Top(stack).kind # "Data") =>
          /\ pc' = "panicked"
          /\ fault' = "ExpectedData"
          /\ Len(stack') <= Len(stack)
          /\ \A i \in 1..Len(stack') : stack'[i] = stack[i]]_vars

\* the second Save of SaveTwiceCode has faulted on the binding the first one
\* had left on top
C15_Witness ==
    /\ pc = "panicked" /\ fault = "ExpectedData"
    /\ chunk.code = SaveTwiceCode
    /\ Len(hist) >= 1 /\ Ago(0).op = "Save"

----------------------------------------------------------------------------
\* The resolver on its own: find_local applied to every stack of up to
\* MaxStack items, Frames anywhere, and every descriptor.

\* stacks of up to this many items are enumerated
MaxStack == 4

StackItems ==
    {Frame, Data(Tagged_from("a")),
     Local("x", "a"), Local("x", "b"), Local("y", "a")}

RECURSIVE StacksOf(_)
StacksOf(n) ==
    IF n = 0 THEN {<<>>}
    ELSE LET shorter == StacksOf(n - 1)
         IN  shorter \cup {Append(s, it) : s \in shorter, it \in StackItems}

InitFind ==
    /\ stack \in StacksOf(MaxStack)
    /\ chunk = Chunk_empty
    /\ ip = 0
    /\ old_chunk = Chunk_empty
    /\ pc = "idle"
    /\ ret = "none"
    /\ fault = "none"
    /\ fails = 0
    /\ faulted = FALSE
    /\ hist = <<>>
    /\ saved = [l \in {Locals[n] : n \in 1..Len(Locals)} |-> "none"]
    /\ calls = "none"

\* one call of find_local; the history records its argument and its answer
FindLocal(local) ==
    /\ hist = <<>>
    /\ hist' = <<[op |-> "find_local", arg |-> local,
                  found |-> find_local(stack, local)]>>
    /\ UNCHANGED <<chunk, stack, ip, old_chunk, pc, ret, fault, fails, faulted,
                   saved, calls>>

NextFind == \E n \in 1..Len(Locals) : FindLocal(Locals[n])

SpecFind == InitFind /\ [][NextFind]_vars

\* C16: for every stack and descriptor, find_local answers the highest index
\* above the topmost Frame that holds a Local of that descriptor, and None
\* when there is none there, whatever lies below that Frame.
C16_ResolverAnswer ==
    hist # <<>> => hist[1].found = Resolve(stack, hist[1].arg)

\* the resolver has answered None for a descriptor bound only below the
\* topmost Frame, and an index for one bound twice above it under a Data item
C16_Witness ==
    /\ hist # <<>>
    /\ \/ /\ hist[1].found = 0
          /\ \E i \in 1..Len(stack) :
                /\ i < TopFrame(stack)
                /\ stack[i].kind = "Local"
                /\ stack[i].local = hist[1].arg
       \/ /\ hist[1].found = 3
          /\ stack = <<Frame, Local("x", "a"), Local("x", "b"), Data(Tagged_from("a"))>>

\* what the handler of the instruction at ip returns
Outcome ==
    CASE AtOp("Con")   -> con(chunk, stack, ip)
      [] AtOp("Save")  -> save(chunk, stack, ip)
      [] AtOp("Load")  -> load(chunk, stack, ip)
      [] AtOp("Clear") -> clear(chunk, stack, ip)
      [] OTHER         -> Out(stack, ip, "BadOpcode", "Bad", 0, 0)

\* this step runs a handler, and the handler returns Some(())
Succeeds == pc = "running" /\ ip < Len(chunk.code) /\ Outcome.res = "Some"

\* bytes of the instruction at ip: the opcode and, but for Clear, its operand
InstrLen == IF AtOp("Clear") THEN 1 ELSE 1 + OperandLen

\* C17: a handler that completes successfully leaves ip on the first byte
\* after its opcode and operand bytes (Clear: ip + 1; Con, Save, Load: ip + 1
\* + the bytes of the operand), strictly forward and not past the end of the
\* code; and no step of a run ever decreases ip.
C17_ForwardOnly ==
    [][/\ Succeeds =>
             /\ pc' = "running"
             /\ ip' = ip + InstrLen
             /\ ip' > ip
             /\ ip' <= Len(chunk.code)
       /\ ip' >= ip]_vars

\* Save with the three-byte operand of WideCode has completed and ip is on
\* the Load that follows it
C17_Witness ==
    /\ pc = "running"
    /\ chunk.code = WideCode
    /\ ip = 7
    /\ peek_byte(chunk, ip) = Load
    /\ Len(hist) >= 1 /\ Ago(0).op = "Save"
    /\ fails = 0

\* the stack holds nothing but Data items
OnlyData == \A i \in 1..Len(stack) : stack[i].kind = "Data"

\* C18: Clear on a stack of Data items only (no Local, no Frame) pops them
\* all and returns None, the exhaustion failure: the stack is left empty,
\* the handler does not report success, and ip is not advanced.
C18_ClearExhaustion ==
    [][(AtOp("Clear") /\ OnlyData) =>
          /\ Outcome.res = "None"
          /\ ~Succeeds
          /\ stack' = <<>>
          /\ ip' = ip
          /\ faulted'
          /\ (fails' = fails + 1 \/ fails = MaxFails)
          /\ pc' # "panicked"]_vars

\* Clear has just failed on a stack that held Data items and nothing else
C18_Witness ==
    /\ pc = "running"
    /\ AtOp("Clear")
    /\ stack = <<>>
    /\ fails = 1
    /\ Len(hist) >= 1
    /\ Ago(0).op = "Con"

\* indices of the Locals of descriptor d in stack s
BindingsOf(s, d) == {i \in 1..Len(s) : s[i].kind = "Local" /\ s[i].local = d}

\* two indices lie in the same frame segment: no Frame from one to the other
SameSegment(s, i, j) == \A k \in i..j : s[k].kind # "Frame"

\* C19: as long as every handler on this VM has completed successfully, in
\* whatever number of runs, no two Locals of one frame segment of the stack
\* carry the same descriptor.
C19_OneBindingPerFrame ==
    ~faulted =>
        \A i, j \in 1..Len(stack) :
            (/\ i < j
             /\ stack[i].kind = "Local"
             /\ stack[j].kind = "Local"
             /\ SameSegment(stack, i, j)) => stack[i].local # stack[j].local

\* in a second or later run, with no failure so far, the only handlers of
\* the run are a first Save of one descriptor, a Con, and a Save that re-bound
\* the other descriptor, bound by an earlier run: the stack holds each once
C19_Witness ==
    /\ ~faulted
    /\ calls = "more"
    /\ pc = "running"
    /\ Len(hist) = 3
    /\ Ago(2).op = "Save" /\ Ago(2).found = 0
    /\ Ago(1).op = "Con"
    /\ Ago(0).op = "Save"
    /\ Ago(0).found # 0
    /\ Ago(0).arg # Ago(2).arg
    /\ Cardinality(BindingsOf(stack, chunk.locals[Ago(0).arg + 1])) = 1
    /\ \A n \in 1..Len(Locals) : BindingsOf(stack, Locals[n]) # {}

\* the stack's only Frame is its bottom item
OnlyBottomFrame ==
    /\ stack # <<>>
    /\ stack[1] = Frame
    /\ \A i \in 2..Len(stack) : stack[i].kind # "Frame"

\* every descriptor a Save has bound is bound in the stack
BoundStaysBound ==
    \A n \in 1..Len(Locals) :
        saved[Locals[n]] # "none" => Resolve(stack, Locals[n]) # 0

\* the instruction at ip is a Load of a descriptor that a Save has bound
LoadOfBound ==
    /\ AtOp("Load")
    /\ ~Truncated
    /\ OperandValue < Len(chunk.locals)
    /\ saved[chunk.locals[OperandValue + 1]] # "none"

\* C20: as long as every handler on this VM has completed successfully, in
\* this run and the earlier ones: the only Frame of the stack is its bottom
\* item, a descriptor once bound by a Save is bound in every later state, a
\* Local never leaves its index nor changes its descriptor, and a Load of a
\* bound descriptor completes, pushing one Data item.
C20_BindingsPersist ==
    /\ [](~faulted => (OnlyBottomFrame /\ BoundStaysBound))
    /\ [][~faulted' =>
             \A i \in 1..Len(stack) :
                 stack[i].kind = "Local" =>
                     /\ i <= Len(stack')
                     /\ stack'[i].kind = "Local"
                     /\ stack'[i].local = stack[i].local]_vars
    /\ [][(~faulted /\ LoadOfBound) =>
             /\ pc' = "running"
             /\ ~faulted'
             /\ Len(stack') = Len(stack) + 1
             /\ Top(stack').kind = "Data"
             /\ Front(stack') = stack]_vars

\* with no failure so far, a later run has bound y to the value an earlier
\* run left on the stack, re-bound x where that run had bound it, right above
\* the bottom Frame, and loaded x from there
C20_Witness ==
    /\ ~faulted
    /\ calls = "more"
    /\ pc = "running"
    /\ Len(hist) = 4
    /\ Ago(3).op = "Save" /\ Ago(3).arg = 1 /\ Ago(3).found = 0
    /\ Ago(2).op = "Con"
    /\ Ago(1).op = "Save" /\ Ago(1).arg = 0 /\ Ago(1).found = 2
    /\ Ago(0).op = "Load" /\ Ago(0).arg = 0 /\ Ago(0).found = 2
    /\ stack[1] = Frame
    /\ stack[2].kind = "Local" /\ stack[2].local = "x"
    /\ stack[3] = Local("y", "a")

====
